---- MODULE Spec2Model ----
(***************************************************************************)
(* AluSearch (streamlit_app_v4.py): the visit counter file, the per-session *)
(* render cycle of main(), the filter engine and the selection resolver.    *)
(***************************************************************************)
EXTENDS Integers, Sequences, FiniteSets, TLC

\* ------------------------------------------------------------------ bounds

\* Browser sessions that can be connected at the same time.
NumSessions == 2
\* Sessions opened over the whole run (each opening is a new st.session_state).
MaxVisits == 3
\* Cap on the increment_visitor_count calls counted for one session.
MaxCalls == 2
\* Rows of the CSV file.
MaxRows == 2
\* Filter widgets the user has moved away from their default at one time.
MaxTouched == 2
\* Numeric cells are fixed-point: the integer v stands for v / Denom.
Denom == 2

Sessions == 1..NumSessions

\* ------------------------------------------------------- text <-> integer

Digits == <<"0", "1", "2", "3", "4", "5", "6", "7", "8", "9">>
DigitSet == {Digits[i] : i \in 1..10}
Whitespace == {" ", "\n"}

DigitVal(c) == (CHOOSE i \in 1..10 : Digits[i] = c) - 1

RECURSIVE DigitsOf(_)
DigitsOf(n) ==
    IF n < 10 THEN <<Digits[n + 1]>>
    ELSE DigitsOf(n \div 10) \o <<Digits[(n % 10) + 1]>>

\* str(count): decimal, no leading zeros, "-" for a negative number.
Str(n) == IF n < 0 THEN <<"-">> \o DigitsOf(0 - n) ELSE DigitsOf(n)

RECURSIVE LStrip(_)
LStrip(t) == IF t # <<>> /\ Head(t) \in Whitespace THEN LStrip(Tail(t)) ELSE t

RECURSIVE RStrip(_)
RStrip(t) ==
    IF t # <<>> /\ t[Len(t)] \in Whitespace THEN RStrip(SubSeq(t, 1, Len(t) - 1))
    ELSE t

RECURSIVE DecValue(_, _)
DecValue(t, acc) ==
    IF t = <<>> THEN acc
    ELSE IF Head(t) = "_" THEN DecValue(Tail(t), acc)
    ELSE DecValue(Tail(t), 10 * acc + DigitVal(Head(t)))

\* int(text): surrounding whitespace is ignored, one optional sign, then
\* decimal digits with single underscores allowed between digits; anything
\* else is a ValueError.
ParseInt(t) ==
    LET s    == RStrip(LStrip(t))
        neg  == s # <<>> /\ Head(s) = "-"
        body == IF s # <<>> /\ Head(s) \in {"+", "-"} THEN Tail(s) ELSE s
        ok   == /\ body # <<>>
                /\ \A i \in 1..Len(body) : body[i] \in DigitSet \cup {"_"}
                /\ body[1] # "_" /\ body[Len(body)] # "_"
                /\ \A i \in 1..(Len(body) - 1) : ~(body[i] = "_" /\ body[i + 1] = "_")
    IN  IF ok
        THEN [exc |-> "none", val |-> IF neg THEN 0 - DecValue(body, 0) ELSE DecValue(body, 0)]
        ELSE [exc |-> "ValueError", val |-> 0]

\* ------------------------------------------------------ the counter file

Missing == [exists |-> FALSE, text |-> <<>>]
FileWith(t) == [exists |-> TRUE, text |-> t]

\* Counter file states the application can be started on: no file, an empty
\* or garbled file, and files holding an integer in the forms int() accepts.
FilePool ==
    { Missing,
      FileWith(<<"x">>),
      FileWith(<<" ", "0", "9", "\n">>),
      FileWith(<<"-", "2">>) }

\* open(full_path, "r") followed by int(f.read()).
ReadFile(f) ==
    IF ~f.exists THEN [exc |-> "FileNotFoundError", val |-> 0]
    ELSE ParseInt(f.text)

get_visitor_count_uncaught(f) == ReadFile(f)

get_visitor_count_from_one(f) ==
    LET r == ReadFile(f)
    IN  IF r.exc \in {"FileNotFoundError", "ValueError"}
        THEN [exc |-> "none", val |-> 1]
        ELSE r

\* get_visitor_count: FileNotFoundError and ValueError are turned into 0.
get_visitor_count(f) ==
    LET r == ReadFile(f)
    IN  IF r.exc \in {"FileNotFoundError", "ValueError"}
        THEN [exc |-> "none", val |-> 0]
        ELSE r

\* f.write(str(count)) and the close that flushes it: the bytes go to offset 0
\* of the descriptor opened earlier; bytes another writer has put beyond them
\* since this descriptor's truncation stay in the file.
WriteAtStart(old, new) ==
    IF Len(old) > Len(new) THEN new \o SubSeq(old, Len(new) + 1, Len(old)) ELSE new

increment_plus_two(n) == n + 2

\* count = get_visitor_count() + 1
increment(n) == n + 1

\* --------------------------------------------------------------- dataset

\* pandas' missing value in a numeric cell, and in a text cell.
NaN == -1
NaNText == "nan"

Num(whole, frac) == whole * Denom + frac

NumCols == {"tensile_strength_mpa", "yield_strength_mpa", "elongation_percent",
            "thermal_conductivity_w_mk", "electrical_conductivity_iacs"}

\* The modelled columns among cols_to_fill.
cols_to_fill == {"thermal_conductivity_w_mk", "electrical_conductivity_iacs"}

Row(a, t, c, ts, ys, el, th, ec) ==
    [alloy |-> a, temper |-> t, corrosion_resistance |-> c,
     tensile_strength_mpa |-> ts, yield_strength_mpa |-> ys, elongation_percent |-> el,
     thermal_conductivity_w_mk |-> th, electrical_conductivity_iacs |-> ec]

\* CSV lines the dataset file is built from: whole and fractional values,
\* missing cells, two tempers of one alloy, and a repeated (alloy, temper).
RowPool ==
    { Row("A5052", "H32", "A",     Num(2, 0), Num(1, 0), Num(1, 0), Num(1, 0), Num(1, 0)),
      Row("A5052", "O",   "B",     Num(1, 0), Num(1, 0), Num(2, 0), Num(1, 0), Num(1, 0)),
      Row("A6061", "T6",  NaNText, Num(2, 0), Num(2, 0), Num(1, 0), NaN,       Num(2, 1)),
      Row("A5052", "H32", "A",     Num(1, 1), Num(1, 0), Num(1, 0), Num(1, 0), Num(1, 0)),
      Row("A6061", "T6",  "A",     NaN,       Num(2, 0), Num(2, 0), Num(2, 0), Num(2, 0)) }

\* sorted() on the identifier and category strings of the pool.
AlloyOrder == <<"A5052", "A6061">>
TemperOrder == <<"H32", "O", "T6">>
CorrosionOrder == <<"-", "A", "B">>

RECURSIVE SeqsUpTo(_, _)
SeqsUpTo(S, n) ==
    IF n = 0 THEN {<<>>}
    ELSE LET shorter == SeqsUpTo(S, n - 1)
         IN  shorter \cup {Append(q, x) : q \in {p \in shorter : Len(p) = n - 1}, x \in S}

CsvMissing == [status |-> "missing", rows |-> <<>>]
CsvBroken == [status |-> "broken", rows |-> <<>>]
CsvOf(rows) == [status |-> "ok", rows |-> rows]

\* Dataset files for the filter engine: a header and up to MaxRows lines.
CsvPool == {CsvOf(q) : q \in SeqsUpTo(RowPool, MaxRows)}

\* Dataset files for the session and counter runs: the failures, a header
\* without lines, and one usable file.
SmallCsvPool ==
    { CsvMissing, CsvBroken, CsvOf(<<>>),
      CsvOf(<<Row("A5052", "H32", "A", Num(2, 0), Num(1, 0), Num(1, 0), Num(1, 0), Num(1, 0))>>) }

\* df[cols_to_fill].fillna(0) and df['corrosion_resistance'].fillna('-');
\* idx is the row's label in the frame's RangeIndex.
CleanRow(r, i) ==
    [c \in DOMAIN r |->
        IF c \in cols_to_fill /\ r[c] = NaN THEN 0
        ELSE IF c = "corrosion_resistance" /\ r[c] = NaNText THEN "-"
        ELSE r[c]]
    @@ ("idx" :> i)

\* pd.read_csv(full_path)
read_csv(c) ==
    IF c.status = "missing" THEN [exc |-> "FileNotFoundError", rows |-> <<>>]
    ELSE IF c.status = "broken" THEN [exc |-> "ParserError", rows |-> <<>>]
    ELSE [exc |-> "none", rows |-> c.rows]

\* load_alloy_data: the cleaned frame, or st.error and an empty frame.
load_alloy_data(c) ==
    LET r == read_csv(c)
    IN  IF r.exc = "FileNotFoundError"
        THEN [exc |-> "none", df |-> <<>>, error |-> "not_found"]
        ELSE IF r.exc # "none"
        THEN [exc |-> "none", df |-> <<>>, error |-> "load_error"]
        ELSE [exc |-> "none", error |-> "none",
              df |-> [i \in 1..Len(r.rows) |-> CleanRow(r.rows[i], i)]]

\* ---------------------------------------------------------- filter engine

Range(q) == {q[i] : i \in 1..Len(q)}
Min(S) == CHOOSE x \in S : \A y \in S : x <= y
Max(S) == CHOOSE x \in S : \A y \in S : x >= y

\* sorted(<column>.unique().tolist()) for values of a known order.
SortedUnique(S, order) == SelectSeq(order, LAMBDA x : x \in S)

\* Series.min() and Series.max() skip missing cells; all missing gives NaN.
ColMin(d, c) ==
    LET vals == {d[i][c] : i \in 1..Len(d)} \ {NaN}
    IN  IF vals = {} THEN NaN ELSE Min(vals)
ColMax(d, c) ==
    LET vals == {d[i][c] : i \in 1..Len(d)} \ {NaN}
    IN  IF vals = {} THEN NaN ELSE Max(vals)

\* int(x) on a non-negative float: the fraction is dropped.
IntOf(v) == v \div Denom

\* tensile_min, tensile_max = int(df[..].min()), int(df[..].max());
\* if tensile_min == tensile_max: tensile_max += 1   (one slider's bounds)
slider_bounds(d, c) ==
    LET mn == ColMin(d, c)
        mx == ColMax(d, c)
    IN  IF mn = NaN THEN [exc |-> "ValueError", lo |-> 0, hi |-> 0]
        ELSE [exc |-> "none", lo |-> IntOf(mn),
              hi |-> IF IntOf(mn) = IntOf(mx) THEN IntOf(mx) + 1 ELSE IntOf(mx)]

\* corrosion_options
corrosion_options(d) ==
    SortedUnique({d[i].corrosion_resistance : i \in 1..Len(d)}, CorrosionOrder)

\* The widgets as first drawn: multiselect default=corrosion_options, each
\* slider value=(min, max).
DefaultFilter(d) ==
    [corrosion |-> Range(corrosion_options(d)),
     range |-> [c \in NumCols |-> <<slider_bounds(d, c).lo, slider_bounds(d, c).hi>>]]

\* Values a user can give one slider: whole numbers lo <= hi within its bounds.
SliderChoices(d, c) ==
    LET b == slider_bounds(d, c)
    IN  {p \in (b.lo..b.hi) \X (b.lo..b.hi) : p[1] <= p[2]}

between_exclusive_right(v, lo, hi) == v # NaN /\ lo * Denom <= v /\ v < hi * Denom

\* Series.between(left, right): inclusive on both sides, False for NaN.
between(v, lo, hi) == v # NaN /\ lo * Denom <= v /\ v <= hi * Denom

isin_or_all(v, selected) == selected = {} \/ v \in selected

\* Series.isin(selected_corrosion)
isin(v, selected) == v \in selected

\* The boolean mask of lines 130-135 for one row.
Mask(r, f) ==
    /\ isin(r.corrosion_resistance, f.corrosion)
    /\ between(r.tensile_strength_mpa, f.range["tensile_strength_mpa"][1], f.range["tensile_strength_mpa"][2])
    /\ between(r.yield_strength_mpa, f.range["yield_strength_mpa"][1], f.range["yield_strength_mpa"][2])
    /\ between(r.elongation_percent, f.range["elongation_percent"][1], f.range["elongation_percent"][2])
    /\ between(r.thermal_conductivity_w_mk, f.range["thermal_conductivity_w_mk"][1], f.range["thermal_conductivity_w_mk"][2])
    /\ between(r.electrical_conductivity_iacs, f.range["electrical_conductivity_iacs"][1], f.range["electrical_conductivity_iacs"][2])

\* filtered_df = df[mask].copy()
ApplyFilter(d, f) == SelectSeq(d, LAMBDA r : Mask(r, f))

\* ------------------------------------------------------ selection resolver

None == "None"

\* Python truthiness of a selectbox value.
Truthy(x) == x # None /\ x # ""

\* alloy_list
alloy_list_of(fd) == SortedUnique({fd[i].alloy : i \in 1..Len(fd)}, AlloyOrder)

available_tempers_unfiltered(d, fd, a) ==
    SortedUnique({d[i].temper : i \in {j \in 1..Len(d) : d[j].alloy = a}}, TemperOrder)

\* available_tempers, from the filtered frame's rows of the selected alloy.
available_tempers_of(d, fd, a) ==
    SortedUnique({fd[i].temper : i \in {j \in 1..Len(fd) : fd[j].alloy = a}}, TemperOrder)

main_content_unguarded(fd, alist, a, t) ==
    LET matches == SelectSeq(fd, LAMBDA r : r.alloy = a /\ r.temper = t)
    IN  IF matches = <<>>
        THEN [outcome |-> "iloc raised IndexError", lookup |-> TRUE, alloy_data |-> <<>>]
        ELSE [outcome |-> "detail", lookup |-> TRUE, alloy_data |-> <<matches[1]>>]

\* The main content: the detail view of .iloc[0] of the matching rows, the
\* "no alloy matches" warning, or the "select an alloy" note.
main_content(fd, alist, a, t) ==
    IF Truthy(a) /\ Truthy(t)
    THEN LET matches == SelectSeq(fd, LAMBDA r : r.alloy = a /\ r.temper = t)
         IN  IF matches = <<>>
             THEN [outcome |-> "iloc raised IndexError", lookup |-> TRUE, alloy_data |-> <<>>]
             ELSE [outcome |-> "detail", lookup |-> TRUE, alloy_data |-> <<matches[1]>>]
    ELSE IF alist = <<>>
    THEN [outcome |-> "warning", lookup |-> FALSE, alloy_data |-> <<>>]
    ELSE [outcome |-> "info", lookup |-> FALSE, alloy_data |-> <<>>]

\* ------------------------------------------------------------------ state

VARIABLES
    csv,               \* aluminum_data_v2.csv on disk
    file,              \* visitor_count.txt on disk
    pc,                \* per session: where its script run stands
    counted,           \* per session: 'counted' in st.session_state
    widgets,           \* per session: the filter widgets' values kept by Streamlit
    count,             \* increment_visitor_count's local count
    df,                \* main's df
    visitor_count,     \* main's visitor_count
    fs,                \* main's selected_corrosion and *_range, once read
    filtered_df,       \* main's filtered_df
    alloy_list,        \* main's alloy_list
    selected_alloy,    \* main's selected_alloy
    selected_temper,   \* main's selected_temper
    alloy_data,        \* main's alloy_data, once resolved
    lookup,            \* whether this run evaluated .iloc[0]
    outcome,           \* what this run ended on
    initial,           \* history: what the counter file read as at the start
    completed,         \* history: increments whose write succeeded
    calls,             \* history: increment_visitor_count calls of the session
    reads,             \* history: whether the session called get_visitor_count
    raced,             \* history: two increments overlapped
    overlapped,        \* history: two sessions held the file open for writing
    writeFailed,       \* history: an open or write of the counter file failed
    visits             \* history: sessions opened so far

diskVars == <<csv, file>>
sessionVars == <<counted, widgets>>
localVars == <<count, df, visitor_count, fs, filtered_df, alloy_list,
               selected_alloy, selected_temper, alloy_data, lookup, outcome>>
bodyVars == <<fs, filtered_df, alloy_list, selected_alloy, selected_temper,
              alloy_data, lookup>>
historyVars == <<initial, completed, calls, reads, raced, overlapped, writeFailed, visits>>
vars == <<diskVars, pc, sessionVars, localVars, historyVars>>

\* What a counter file stands for: its integer, 0 when missing or garbled.
InitialValue(f) ==
    IF f.exists /\ ParseInt(f.text).exc = "none" THEN ParseInt(f.text).val ELSE 0

NoWidgets == [touched |-> {}, corrosion |-> {}, range |-> [c \in NumCols |-> <<0, 0>>]]

InWrite(s) == pc[s] \in {"inc_open", "inc_write"}

InitSessions(flag) ==
    /\ pc = [s \in Sessions |-> "start"]
    /\ counted = [s \in Sessions |-> flag]
    /\ widgets = [s \in Sessions |-> NoWidgets]
    /\ count = [s \in Sessions |-> 0]
    /\ df = [s \in Sessions |-> <<>>]
    /\ visitor_count = [s \in Sessions |-> 0]
    /\ fs = [s \in Sessions |-> <<>>]
    /\ filtered_df = [s \in Sessions |-> <<>>]
    /\ alloy_list = [s \in Sessions |-> <<>>]
    /\ selected_alloy = [s \in Sessions |-> None]
    /\ selected_temper = [s \in Sessions |-> None]
    /\ alloy_data = [s \in Sessions |-> <<>>]
    /\ lookup = [s \in Sessions |-> FALSE]
    /\ outcome = [s \in Sessions |-> "none"]
    /\ initial = InitialValue(file)
    /\ completed = 0
    /\ calls = [s \in Sessions |-> 0]
    /\ reads = [s \in Sessions |-> 0]
    /\ raced = FALSE
    /\ overlapped = FALSE
    /\ writeFailed = FALSE
    /\ visits = NumSessions

\* The server is up and the browsers have just connected.
Init ==
    /\ csv \in SmallCsvPool
    /\ file \in FilePool
    /\ InitSessions(FALSE)

\* The visits have been counted already (the counter step is behind every
\* session), over some dataset file.
InitFilter ==
    /\ csv \in CsvPool
    /\ file = FileWith(Str(NumSessions))
    /\ InitSessions(TRUE)

\* ------------------------------------------------------------ the session

\* The values of a finished run go when its page is replaced or dropped.
ResetLocals(s) ==
    /\ visitor_count' = [visitor_count EXCEPT ![s] = 0]
    /\ fs' = [fs EXCEPT ![s] = <<>>]
    /\ filtered_df' = [filtered_df EXCEPT ![s] = <<>>]
    /\ alloy_list' = [alloy_list EXCEPT ![s] = <<>>]
    /\ selected_alloy' = [selected_alloy EXCEPT ![s] = None]
    /\ selected_temper' = [selected_temper EXCEPT ![s] = None]
    /\ alloy_data' = [alloy_data EXCEPT ![s] = <<>>]
    /\ lookup' = [lookup EXCEPT ![s] = FALSE]

\* A browser reconnects after a finished run: the old session's state is
\* dropped, the new session starts with an empty st.session_state.
Reconnect(s) ==
    /\ pc[s] = "done"
    /\ visits < MaxVisits
    /\ visits' = visits + 1
    /\ pc' = [pc EXCEPT ![s] = "start"]
    /\ counted' = [counted EXCEPT ![s] = FALSE]
    /\ widgets' = [widgets EXCEPT ![s] = NoWidgets]
    /\ calls' = [calls EXCEPT ![s] = 0]
    /\ reads' = [reads EXCEPT ![s] = 0]
    /\ ResetLocals(s)
    /\ count' = [count EXCEPT ![s] = 0]
    /\ df' = [df EXCEPT ![s] = <<>>]
    /\ outcome' = [outcome EXCEPT ![s] = "none"]
    /\ UNCHANGED <<diskVars, initial, completed, raced, overlapped, writeFailed>>

\* Streamlit runs the script again for the session, widgets as they are.
Rerun(s) ==
    /\ pc[s] = "done"
    /\ pc' = [pc EXCEPT ![s] = "start"]
    /\ ResetLocals(s)
    /\ df' = [df EXCEPT ![s] = <<>>]
    /\ outcome' = [outcome EXCEPT ![s] = "none"]
    /\ UNCHANGED <<diskVars, sessionVars, count, historyVars>>

\* The user changes one filter widget, which makes Streamlit run the script again.
ChangeWidget(s) ==
    /\ pc[s] = "done"
    /\ fs[s] # <<>>
    /\ LET d == df[s]
           def == DefaultFilter(d)
           w == widgets[s]
           Set(nw) ==
               /\ nw # w
               /\ Cardinality(nw.touched) <= MaxTouched
               /\ widgets' = [widgets EXCEPT ![s] = nw]
       IN  \/ \E sel \in SUBSET def.corrosion :
                 IF sel = def.corrosion
                 THEN Set([w EXCEPT !.touched = @ \ {"corrosion"}, !.corrosion = {}])
                 ELSE Set([w EXCEPT !.touched = @ \cup {"corrosion"}, !.corrosion = sel])
           \/ \E c \in NumCols : \E v \in SliderChoices(d, c) :
                 IF v = def.range[c]
                 THEN Set([w EXCEPT !.touched = @ \ {c}, !.range[c] = <<0, 0>>])
                 ELSE Set([w EXCEPT !.touched = @ \cup {c}, !.range[c] = v])
    /\ pc' = [pc EXCEPT ![s] = "start"]
    /\ ResetLocals(s)
    /\ df' = [df EXCEPT ![s] = <<>>]
    /\ outcome' = [outcome EXCEPT ![s] = "none"]
    /\ UNCHANGED <<diskVars, counted, count, historyVars>>

\* ------------------------------------------------------------------ main()
\* A session's script run is a thread of the server. Its steps are cut where it
\* touches visitor_count.txt, the one thing sessions share; what lies between
\* two such places works on the run's own values and is taken with the next.

\* The filter the widgets hand to this run: a touched widget's kept value,
\* an untouched widget's default.
CurrentFilter(d, w) ==
    LET def == DefaultFilter(d)
    IN  [corrosion |-> IF "corrosion" \in w.touched THEN w.corrosion ELSE def.corrosion,
         range |-> [c \in NumCols |-> IF c \in w.touched THEN w.range[c] ELSE def.range[c]]]

\* An exception nothing catches ends the script run.
Crash(s, exc) ==
    /\ pc' = [pc EXCEPT ![s] = "done"]
    /\ outcome' = [outcome EXCEPT ![s] = exc]

proceeds_when_empty(d) == FALSE

\* if df.empty: return
returns_early(d) == d = <<>>

\* Lines 79-87 up to the read in increment_visitor_count (line 48):
\* df = load_alloy_data(); if df.empty: return;
\* if 'counted' not in st.session_state: count = get_visitor_count() + 1 ...
StartRun(s) ==
    /\ pc[s] = "start"
    /\ LET r == load_alloy_data(csv)
           c == get_visitor_count(file)
       IN  IF r.exc # "none"
           THEN /\ Crash(s, "load_alloy_data raised")
                /\ df' = [df EXCEPT ![s] = <<>>]
                /\ UNCHANGED <<calls, reads, raced>>
           ELSE /\ df' = [df EXCEPT ![s] = r.df]
                /\ IF returns_early(r.df)
                   THEN /\ pc' = [pc EXCEPT ![s] = "done"]
                        /\ outcome' = [outcome EXCEPT ![s] = r.error]
                        /\ UNCHANGED <<calls, reads, raced>>
                   ELSE IF counted[s]
                   THEN /\ pc' = [pc EXCEPT ![s] = "render"]
                        /\ outcome' = [outcome EXCEPT ![s] = "none"]
                        /\ UNCHANGED <<calls, reads, raced>>
                   ELSE /\ calls[s] < MaxCalls
                        /\ calls' = [calls EXCEPT ![s] = @ + 1]
                        /\ reads' = [reads EXCEPT ![s] = 1]
                        /\ raced' = (raced \/ \E o \in Sessions \ {s} : InWrite(o))
                        /\ IF c.exc # "none"
                           THEN Crash(s, "get_visitor_count raised")
                           ELSE /\ pc' = [pc EXCEPT ![s] = "inc_open"]
                                /\ outcome' = [outcome EXCEPT ![s] = "none"]
    /\ count' = [count EXCEPT ![s] =
                    LET r == load_alloy_data(csv)
                        c == get_visitor_count(file)
                    IN  IF r.exc = "none" /\ ~returns_early(r.df) /\ ~counted[s] /\ c.exc = "none"
                        THEN increment(c.val) ELSE 0]
    /\ UNCHANGED <<diskVars, sessionVars, visitor_count, bodyVars,
                   initial, completed, overlapped, writeFailed, visits>>

flag_only_on_success(flag, ok) == flag \/ ok

\* st.session_state.counted = True, whatever became of the write.
flag_after_increment(flag, ok) == TRUE

\* increment_visitor_count, line 52: open(full_path, "w") creates or empties
\* the file. When it fails the except branch reports it, the call returns and
\* main sets the flag (line 87).
IncOpen(s) ==
    /\ pc[s] = "inc_open"
    /\ \E ok \in BOOLEAN :
          IF ok
          THEN /\ file' = FileWith(<<>>)
               /\ pc' = [pc EXCEPT ![s] = "inc_write"]
               /\ overlapped' = (overlapped \/ \E o \in Sessions \ {s} : pc[o] = "inc_write")
               /\ UNCHANGED <<writeFailed, count, counted>>
          ELSE /\ writeFailed' = TRUE
               /\ pc' = [pc EXCEPT ![s] = "render"]
               /\ count' = [count EXCEPT ![s] = 0]
               /\ counted' = [counted EXCEPT ![s] = flag_after_increment(@, FALSE)]
               /\ UNCHANGED <<file, overlapped>>
    /\ UNCHANGED <<csv, widgets, df, visitor_count, bodyVars, outcome,
                   initial, completed, calls, reads, raced, visits>>

\* increment_visitor_count, line 53 and the end of the with block: the text
\* of count is written at the start of the opened file; when that fails the
\* file stays as the open left it. Then main sets the flag (line 87).
IncWrite(s) ==
    /\ pc[s] = "inc_write"
    /\ \E ok \in BOOLEAN :
          /\ IF ok
             THEN /\ file' = FileWith(WriteAtStart(file.text, Str(count[s])))
                  /\ completed' = completed + 1
                  /\ UNCHANGED writeFailed
             ELSE /\ writeFailed' = TRUE
                  /\ UNCHANGED <<file, completed>>
          /\ counted' = [counted EXCEPT ![s] = flag_after_increment(@, ok)]
    /\ pc' = [pc EXCEPT ![s] = "render"]
    /\ count' = [count EXCEPT ![s] = 0]
    /\ UNCHANGED <<csv, widgets, df, visitor_count, bodyVars, outcome,
                   initial, calls, reads, raced, overlapped, visits>>

\* Lines 89-285: visitor_count = get_visitor_count(); the filter widgets are
\* drawn and read (int() of a column without any value raises ValueError), the
\* filter is applied, the select boxes are drawn and read (the user's choice is
\* any entry of each list, the default index is one of them), the main content
\* is shown.
RenderPage(s) ==
    /\ pc[s] = "render"
    /\ pc' = [pc EXCEPT ![s] = "done"]
    /\ reads' = [reads EXCEPT ![s] = 1]
    /\ LET v == get_visitor_count(file)
           d == df[s]
       IN  IF v.exc # "none"
           THEN /\ outcome' = [outcome EXCEPT ![s] = "get_visitor_count raised"]
                /\ UNCHANGED <<visitor_count, bodyVars>>
           ELSE /\ visitor_count' = [visitor_count EXCEPT ![s] = v.val]
                /\ IF \E c \in NumCols : slider_bounds(d, c).exc # "none"
                   THEN /\ outcome' = [outcome EXCEPT ![s] = "int raised ValueError"]
                        /\ UNCHANGED bodyVars
                   ELSE LET f == CurrentFilter(d, widgets[s])
                            fd == ApplyFilter(d, f)
                            al == alloy_list_of(fd)
                            Show(a, t) ==
                                LET r == main_content(fd, al, a, t)
                                IN  /\ selected_alloy' = [selected_alloy EXCEPT ![s] = a]
                                    /\ selected_temper' = [selected_temper EXCEPT ![s] = t]
                                    /\ outcome' = [outcome EXCEPT ![s] = r.outcome]
                                    /\ lookup' = [lookup EXCEPT ![s] = r.lookup]
                                    /\ alloy_data' = [alloy_data EXCEPT ![s] = r.alloy_data]
                        IN  /\ fs' = [fs EXCEPT ![s] = <<f>>]
                            /\ filtered_df' = [filtered_df EXCEPT ![s] = fd]
                            /\ alloy_list' = [alloy_list EXCEPT ![s] = al]
                            /\ IF al = <<>>
                               THEN Show(None, None)
                               ELSE \E a \in Range(al) :
                                       LET tempers == available_tempers_of(d, fd, a)
                                       IN  IF tempers = <<>>
                                           THEN Show(a, None)
                                           ELSE \E t \in Range(tempers) : Show(a, t)
    /\ UNCHANGED <<diskVars, sessionVars, count, df,
                   initial, completed, calls, raced, overlapped, writeFailed, visits>>

\* One step of one session's call of main().
MainStep(s) ==
    \/ StartRun(s)
    \/ IncOpen(s)
    \/ IncWrite(s)
    \/ RenderPage(s)

\* Sessions come and go and run the script concurrently.
Next ==
    \E s \in Sessions :
        \/ MainStep(s)
        \/ Rerun(s)
        \/ Reconnect(s)

Spec == Init /\ [][Next]_vars

FirstSession == {s \in Sessions : \A o \in Sessions : s <= o}

\* One session whose user works the filter widgets.
NextFilter ==
    \E s \in FirstSession :
        \/ StartRun(s)
        \/ RenderPage(s)
        \/ ChangeWidget(s)

SpecFilter == InitFilter /\ [][NextFilter]_vars

\* ------------------------------------------------------------- properties

Quiet == \A s \in Sessions : ~InWrite(s)

\* What get_visitor_count is to return on a counter file.
Stored(f) == IF f.exists /\ ParseInt(f.text).exc = "none" THEN ParseInt(f.text).val ELSE 0

NonNeg(n) == IF n < 0 THEN 0 ELSE n

\* C1: after N increments that ran one after the other and whose writes all
\* succeeded, the counter file holds the text of initial + N, where a missing
\* or garbled file counts as initial = 0; with N = 0 it still reads as initial.
C1_SequentialIncrements ==
    (~raced /\ ~writeFailed /\ Quiet) =>
        IF completed = 0 THEN Stored(file) = initial
        ELSE file = FileWith(Str(initial + completed))

C1_Witness ==
    /\ ~raced /\ ~writeFailed /\ Quiet
    /\ completed = MaxVisits
    /\ initial + completed > 9
    /\ file = FileWith(Str(initial + completed))

\* C2: a call of get_visitor_count (in increment_visitor_count and at line 89)
\* leaves the counter file as it is and does not raise; it returns 0 when the
\* file is missing or does not hold a valid integer, else the stored integer.
C2_ReadNeverRaises ==
    [][\A s \in Sessions :
          LET bad == ~file.exists \/ ParseInt(file.text).exc # "none"
              expected == IF bad THEN 0 ELSE ParseInt(file.text).val
          IN  /\ (pc[s] = "render" /\ pc'[s] = "done") =>
                    /\ file' = file
                    /\ outcome'[s] # "get_visitor_count raised"
                    /\ visitor_count'[s] = expected
              /\ (pc[s] = "start" /\ calls'[s] = calls[s] + 1) =>
                    /\ file' = file
                    /\ pc'[s] = "inc_open"
                    /\ count'[s] = expected + 1]_vars

C2_Witness ==
    \E s \in Sessions :
        /\ pc[s] = "done"
        /\ outcome[s] = "detail"
        /\ visitor_count[s] = 0
        /\ file = FileWith(<<"x">>)
        /\ writeFailed /\ completed = 0
        /\ \A o \in Sessions \ {s} : pc[o] = "start" /\ calls[o] = 0

\* C3: within one session increment_visitor_count is called at most once,
\* however often the script runs: once it has returned, with the write done or
\* failed, the flag 'counted' is set, and a set flag means it was called once.
C3_CountedOncePerSession ==
    \A s \in Sessions :
        /\ calls[s] <= 1
        /\ counted[s] => calls[s] = 1
        /\ (calls[s] = 1 /\ pc[s] \in {"render", "done"}) => counted[s]

C3_Witness ==
    \E s \in Sessions :
        /\ pc[s] = "start"
        /\ counted[s]
        /\ calls[s] = 1
        /\ writeFailed /\ completed = 0

\* C4 as stated, for a counter that started at 0 or more: the stored value
\* never exceeds initial + the number of completed increments.
C4_NeverExceeds ==
    (initial >= 0 /\ file.exists /\ ParseInt(file.text).exc = "none") =>
        ParseInt(file.text).val <= initial + completed

\* C4, amended: as long as no two sessions have held the counter file open for
\* writing at the same time, the stored value never exceeds
\* max(initial, 0) + the number of completed increments (updates get lost, none
\* is invented).
C4_NeverExceedsWithoutWriteOverlap ==
    ~overlapped => Stored(file) <= NonNeg(initial) + completed

\* A lost update: two increments completed, their open-to-write windows apart,
\* and the file holds less than initial + 2.
C4_Witness ==
    /\ ~overlapped /\ Quiet
    /\ completed = 2
    /\ initial >= 0
    /\ file.exists /\ ParseInt(file.text).exc = "none"
    /\ Stored(file) < initial + completed

\* C7: when the dataset cannot be read (missing file or any other error),
\* load_alloy_data hands back an empty frame without raising and the run stops
\* there: the counter is neither read nor incremented, 'counted' is not set,
\* nothing is filtered, selected or resolved.
C7_LoadFailureStops ==
    read_csv(csv).exc # "none" =>
        /\ completed = 0 /\ ~writeFailed
        /\ Stored(file) = initial
        /\ \A s \in Sessions :
              /\ pc[s] \in {"start", "done"}
              /\ df[s] = <<>>
              /\ ~counted[s] /\ calls[s] = 0 /\ reads[s] = 0
              /\ fs[s] = <<>> /\ filtered_df[s] = <<>> /\ alloy_list[s] = <<>>
              /\ selected_alloy[s] = None /\ selected_temper[s] = None
              /\ ~lookup[s] /\ alloy_data[s] = <<>>
              /\ pc[s] = "done" => outcome[s] \in {"not_found", "load_error"}

C7_Witness ==
    /\ csv = CsvBroken
    /\ \E s \in Sessions : pc[s] = "done" /\ outcome[s] = "load_error"
    /\ visits = MaxVisits

\* The row labels of a frame.
Labels(fd) == {fd[i].idx : i \in 1..Len(fd)}

\* The retention rule of the filter engine, as specified: the category is
\* selected and each of the five values lies within its inclusive range.
Retained(r, f) ==
    /\ r.corrosion_resistance \in f.corrosion
    /\ \A c \in NumCols :
          /\ r[c] # NaN
          /\ f.range[c][1] * Denom <= r[c]
          /\ r[c] <= f.range[c][2] * Denom

Rendered(s) == pc[s] = "done" /\ fs[s] # <<>>

\* C5: a row is in filtered_df exactly when its corrosion class is selected
\* and its five values lie within their inclusive ranges; filtered_df keeps
\* the rows as they are and in df's order; df stays the loaded dataset.
C5_FilterRetainsExactly ==
    \A s \in Sessions :
        Rendered(s) =>
            LET f == fs[s][1]
                d == df[s]
                fd == filtered_df[s]
            IN  /\ \A i \in 1..Len(d) : (i \in Labels(fd)) <=> Retained(d[i], f)
                /\ \A j \in 1..Len(fd) : fd[j].idx \in 1..Len(d) /\ fd[j] = d[fd[j].idx]
                /\ \A j, k \in 1..Len(fd) : j < k => fd[j].idx < fd[k].idx
                /\ d = load_alloy_data(csv).df

\* A row on the edge of a narrowed range is kept while another row, whose
\* class is selected, falls outside a range.
C5_Witness ==
    \E s \in Sessions :
        /\ Rendered(s)
        /\ Len(df[s]) = 2 /\ Len(filtered_df[s]) = 1
        /\ \E c \in NumCols :
              /\ c \in widgets[s].touched
              /\ filtered_df[s][1][c] = fs[s][1].range[c][2] * Denom
        /\ \A i \in 1..2 : df[s][i].corrosion_resistance \in fs[s][1].corrosion

\* No cell of a numeric filter column is missing.
Complete(d) == \A i \in 1..Len(d) : \A c \in NumCols : d[i][c] # NaN

\* C6: with every filter widget at its default, filtered_df holds every row
\* of df (stated for a dataset without missing values).
C6_DefaultKeepsEveryRow ==
    \A s \in Sessions :
        (Rendered(s) /\ widgets[s].touched = {} /\ Complete(df[s])) =>
            Labels(filtered_df[s]) = 1..Len(df[s])

\* C8: when filtered_df is empty, alloy_list is empty, alloy and temper are
\* both None, .iloc[0] is not evaluated and the run ends on the "no alloy
\* matches" warning.
C8_EmptyFilterGivesWarning ==
    \A s \in Sessions :
        (Rendered(s) /\ filtered_df[s] = <<>>) =>
            /\ alloy_list[s] = <<>>
            /\ selected_alloy[s] = None /\ selected_temper[s] = None
            /\ ~lookup[s] /\ alloy_data[s] = <<>>
            /\ outcome[s] = "warning"

C8_Witness ==
    \E s \in Sessions :
        /\ Rendered(s)
        /\ df[s] # <<>> /\ filtered_df[s] = <<>>
        /\ fs[s][1].corrosion # {}
        /\ outcome[s] = "warning"

\* C9: when filtered_df is not empty, the alloy chosen from alloy_list and the
\* temper chosen from that alloy's tempers resolve to a row: the first row of
\* filtered_df with that alloy and temper, which passes the filter in force.
C9_ResolvesFirstMatch ==
    \A s \in Sessions :
        (Rendered(s) /\ filtered_df[s] # <<>>) =>
            LET fd == filtered_df[s]
                hits == {j \in 1..Len(fd) : fd[j].alloy = selected_alloy[s]
                                            /\ fd[j].temper = selected_temper[s]}
            IN  /\ selected_alloy[s] \in Range(alloy_list[s])
                /\ hits # {}
                /\ lookup[s] /\ outcome[s] = "detail"
                /\ alloy_data[s] = <<fd[Min(hits)]>>
                /\ Retained(alloy_data[s][1], fs[s][1])

\* Two rows carry the chosen (alloy, temper); the earlier one is shown.
C9_Witness ==
    \E s \in Sessions :
        /\ Rendered(s)
        /\ Len(filtered_df[s]) = 2
        /\ filtered_df[s][1].alloy = filtered_df[s][2].alloy
        /\ filtered_df[s][1].temper = filtered_df[s][2].temper
        /\ filtered_df[s][1].tensile_strength_mpa # filtered_df[s][2].tensile_strength_mpa
        /\ alloy_data[s] = <<filtered_df[s][1]>>

\* The filter states that narrow one range of f, or shrink its category set,
\* and leave the rest as it is.
Narrowings(f) ==
    {[f EXCEPT !.corrosion = sel] : sel \in SUBSET f.corrosion}
    \cup {[f EXCEPT !.range[c] = p] :
             c \in NumCols,
             p \in {q \in (0..(MaxRows + 2)) \X (0..(MaxRows + 2)) : q[1] <= q[2]}}

Narrows(g, f) ==
    /\ g.corrosion \subseteq f.corrosion
    /\ \A c \in NumCols : f.range[c][1] <= g.range[c][1] /\ g.range[c][2] <= f.range[c][2]

\* C10: narrowing one range of the filter in force, or shrinking its category
\* set, yields a subset of filtered_df.
C10_FilterMonotonic ==
    \A s \in Sessions :
        Rendered(s) =>
            \A g \in Narrowings(fs[s][1]) :
                Narrows(g, fs[s][1]) => Labels(ApplyFilter(df[s], g)) \subseteq Labels(filtered_df[s])

C10_Witness ==
    \E s \in Sessions :
        /\ Rendered(s)
        /\ Len(filtered_df[s]) = 2
        /\ \E g \in Narrowings(fs[s][1]) :
              /\ Narrows(g, fs[s][1])
              /\ g.corrosion = fs[s][1].corrosion
              /\ Len(ApplyFilter(df[s], g)) = 1

====
